---- MODULE Spec2Model ----
(***************************************************************************)
(* State-machine model of the three stateful units of src/App.tsx:         *)
(*   useScrollReveal / RevealSection  (lines 52-89)                        *)
(*   CountdownTimer                   (lines 91-124)                       *)
(*   FAQItem                          (lines 168-188)                      *)
(* App (lines 192-522) renders all of them unconditionally, so they are    *)
(* mounted and removed together with App.  The host (React, the browser's  *)
(* timer and intersection-observer queues) is modelled as the scheduler of *)
(* the callbacks the source registers.                                     *)
(***************************************************************************)
EXTENDS Integers, Sequences, FiniteSets

VARIABLES
    hasIO,        \* the host defines the global IntersectionObserver (line 57)
    phase,        \* lifecycle of the App tree
    timeLeft,     \* CountdownTimer: useState value (line 92)
    timer,        \* CountdownTimer: the handle returned by setInterval (line 95)
    tickTask,     \* the browser's queued task for an elapsed interval
    prevTicked,   \* history: the instance removed last had consumed ticks
    isVisible,    \* useScrollReveal: useState value, per RevealSection (line 53)
    observed,     \* per RevealSection: its observer watches domRef.current (line 66)
    pending,      \* per RevealSection: its observer holds queued entries
    isOpen,       \* FAQItem: useState value, per item (line 169)
    activations,  \* history: clicks an item received since mount, modulo 4
    initial,      \* the argument of useState in CountdownTimer (line 92)
    ticks,        \* history: interval callbacks run since the countdown started
    delivered     \* history: <<section, entries>> of the last recorded delivery

vars == <<hasIO, phase, timeLeft, timer, tickTask, prevTicked, isVisible,
          observed, pending, isOpen, activations, initial, ticks, delivered>>

----------------------------------------------------------------------------
(* Bounds of the model. *)

\* RevealSection instances modelled (App renders more, all alike).
NSections == 2
\* Longest batch of entries one observer callback receives.
MaxEntries == 2
\* Interval callbacks explored per mounted instance in the whole-page Spec.
MaxTicks == 2
\* Box of initial values (H, M, S) explored by SpecTick.
MaxH == 1
MaxM == 1
MaxS == 3
\* Interval callbacks explored after the countdown has reached zero.
ExtraTicks == 2

\* FAQItem instances modelled (App renders four, all alike).
NItems == 2

Sections == 1..NSections
Items == 1..NItems

----------------------------------------------------------------------------
(* CountdownTimer, lines 91-124. *)

\* useState({ hours: 1, minutes: 24, seconds: 59 }), line 92.
InitialTimeLeft == [hours |-> 1, minutes |-> 24, seconds |-> 59]

Zero == [hours |-> 0, minutes |-> 0, seconds |-> 0]

\* Remaining seconds a value stands for.
Total(t) == t.hours * 3600 + t.minutes * 60 + t.seconds

\* A plausible slip: the terminal value wraps around instead of staying put.
TickWrap(prev) ==
    IF prev.seconds > 0 THEN [prev EXCEPT !.seconds = prev.seconds - 1]
    ELSE IF prev.minutes > 0
         THEN [prev EXCEPT !.minutes = prev.minutes - 1, !.seconds = 59]
    ELSE IF prev.hours > 0
         THEN [hours |-> prev.hours - 1, minutes |-> 59, seconds |-> 59]
    ELSE [hours |-> 0, minutes |-> 59, seconds |-> 59]

\* A plausible slip: a borrow refills the seconds with 60 instead of 59.
TickBorrow60(prev) ==
    IF prev.seconds > 0 THEN [prev EXCEPT !.seconds = prev.seconds - 1]
    ELSE IF prev.minutes > 0
         THEN [prev EXCEPT !.minutes = prev.minutes - 1, !.seconds = 60]
    ELSE IF prev.hours > 0
         THEN [hours |-> prev.hours - 1, minutes |-> 59, seconds |-> 60]
    ELSE prev

\* A plausible slip: the hour borrow spreads prev and leaves the minutes.
TickKeepsMinutes(prev) ==
    IF prev.seconds > 0 THEN [prev EXCEPT !.seconds = prev.seconds - 1]
    ELSE IF prev.minutes > 0
         THEN [prev EXCEPT !.minutes = prev.minutes - 1, !.seconds = 59]
    ELSE IF prev.hours > 0
         THEN [prev EXCEPT !.hours = prev.hours - 1, !.seconds = 59]
    ELSE prev

\* A plausible slip: the guard on the seconds is missing.
TickNoClamp(prev) ==
    IF prev.seconds > 0 \/ (prev.minutes = 0 /\ prev.hours = 0)
    THEN [prev EXCEPT !.seconds = prev.seconds - 1]
    ELSE IF prev.minutes > 0
         THEN [prev EXCEPT !.minutes = prev.minutes - 1, !.seconds = 59]
    ELSE [hours |-> prev.hours - 1, minutes |-> 59, seconds |-> 59]

\* The updater passed to setTimeLeft, lines 96-101.
Tick(prev) ==
    IF prev.seconds > 0 THEN [prev EXCEPT !.seconds = prev.seconds - 1]
    ELSE IF prev.minutes > 0
         THEN [prev EXCEPT !.minutes = prev.minutes - 1, !.seconds = 59]
    ELSE IF prev.hours > 0
         THEN [hours |-> prev.hours - 1, minutes |-> 59, seconds |-> 59]
    ELSE prev

\* Number.prototype.toString for a non-negative integer: its decimal digits.
DigitChar(d) == <<"0", "1", "2", "3", "4", "5", "6", "7", "8", "9">>[d + 1]

RECURSIVE toString(_)
toString(n) ==
    IF n < 10 THEN <<DigitChar(n)>>
    ELSE Append(toString(n \div 10), DigitChar(n % 10))

\* String.prototype.padStart(len, ch): ch is prepended until len is reached;
\* a string already that long is returned as it is.
RECURSIVE padStart(_, _, _)
padStart(s, len, ch) ==
    IF Len(s) >= len THEN s ELSE padStart(<<ch>> \o s, len, ch)

\* A plausible slip: the padding is left out.
formatNoPad(n) == toString(n)

\* const format = (n) => n.toString().padStart(2, '0'), line 106.
format(n) == padStart(toString(n), 2, "0")

\* The three fields the component renders, in order, lines 110-117.
Display == <<format(timeLeft.hours), format(timeLeft.minutes),
             format(timeLeft.seconds)>>

\* A plausible slip: the value is kept across mounts (a module-level value).
MountTimeLeftKept == timeLeft

\* The state a fresh CountdownTimer instance starts with, line 92.
MountTimeLeft == initial

\* A plausible slip: the cleanup does not release the handle.
ClearIntervalLeak(t) == t

\* clearInterval(timer), line 103: the handle leaves the active timers.
ClearInterval(t) == "none"

----------------------------------------------------------------------------
(* useScrollReveal, lines 52-74. *)

\* Batches of entries an observer callback can receive: entry.isIntersecting.
Batches == UNION {[1..n -> BOOLEAN] : n \in 1..MaxEntries}

\* A plausible slip: only entries[0] is looked at.
ObserverCallbackFirst(visible, entries) ==
    IF entries # <<>> /\ Head(entries) THEN TRUE ELSE visible

\* A plausible slip: setIsVisible(entry.isIntersecting), the last entry wins.
RECURSIVE ObserverCallbackLast(_, _)
ObserverCallbackLast(visible, entries) ==
    IF entries = <<>> THEN visible
    ELSE ObserverCallbackLast(Head(entries), Tail(entries))

\* entries.forEach(entry => { if (entry.isIntersecting) setIsVisible(true) }),
\* lines 57-63: the value of isVisible after the callback has returned.
RECURSIVE ObserverCallback(_, _)
ObserverCallback(visible, entries) ==
    IF entries = <<>> THEN visible
    ELSE ObserverCallback(IF Head(entries) THEN TRUE ELSE visible, Tail(entries))

\* A plausible slip: the cleanup leaves the region observed.
UnobserveLeak(obs) == obs

\* if (current) observer.unobserve(current), lines 68-70, for every section;
\* current is the rendered div (line 83), never null.
Unobserve(obs) == [i \in Sections |-> FALSE]

----------------------------------------------------------------------------
(* FAQItem, lines 168-188. *)

\* A plausible slip: the handler only ever opens.
ToggleOpenOnly(b) == TRUE

\* !isOpen, line 173.
Toggle(b) == ~b

\* A plausible slip: an accordion, opening one item closes its siblings.
SetIsOpenAccordion(i) ==
    [j \in Items |-> IF j = i THEN Toggle(isOpen[i]) ELSE FALSE]

\* setIsOpen(!isOpen) of item i, line 173: only that instance's state.
SetIsOpen(i) == [isOpen EXCEPT ![i] = Toggle(isOpen[i])]

----------------------------------------------------------------------------
(* The page: App mounts every instance, lines 192-522. *)

Phases == {"unmounted", "rendered", "mounted", "removed", "crashed"}

\* The state the hooks hold while nothing is mounted.
Init ==
    /\ hasIO \in BOOLEAN
    /\ phase = "unmounted"
    /\ initial = InitialTimeLeft
    /\ timeLeft = InitialTimeLeft
    /\ timer = "none"
    /\ tickTask = "none"
    /\ prevTicked = FALSE
    /\ isVisible = [i \in Sections |-> FALSE]
    /\ observed = [i \in Sections |-> FALSE]
    /\ pending = [i \in Sections |-> FALSE]
    /\ isOpen = [i \in Items |-> FALSE]
    /\ activations = [i \in Items |-> 0]
    /\ ticks = 0
    /\ delivered = <<>>

\* First render of the tree: every useState takes its initial value
\* (lines 53, 92, 169); the effects have not run yet.
Mount ==
    /\ phase = "unmounted"
    /\ phase' = "rendered"
    /\ timeLeft' = MountTimeLeft
    /\ isVisible' = [i \in Sections |-> FALSE]
    /\ isOpen' = [i \in Items |-> FALSE]
    /\ activations' = [i \in Items |-> 0]
    /\ UNCHANGED <<delivered, hasIO, timer, tickTask, prevTicked, observed, pending,
                   initial, ticks>>

\* The effects of the mounted tree run, in one flush: every useScrollReveal
\* effect (lines 56-66) and the CountdownTimer effect (lines 94-102).
\* Where the host has no IntersectionObserver, line 57 throws a
\* ReferenceError; no error boundary is rendered, so React takes the whole
\* tree down, running the cleanups of the effects that did run.
FlushEffects ==
    /\ phase = "rendered"
    /\ IF hasIO
       THEN /\ phase' = "mounted"
            /\ observed' = [i \in Sections |-> TRUE]
            /\ timer' = "active"
       ELSE /\ phase' = "crashed"
            /\ observed' = [i \in Sections |-> FALSE]
            /\ timer' = ClearInterval("active")
    \* the observers are new objects: nothing is queued on them
    /\ pending' = [i \in Sections |-> FALSE]
    /\ UNCHANGED <<delivered, hasIO, timeLeft, tickTask, prevTicked, isVisible, isOpen,
                   activations, initial, ticks>>

\* The tree is removed from the page; the effect cleanups are still to run.
Remove ==
    /\ phase = "mounted"
    /\ phase' = "removed"
    /\ prevTicked' = (timeLeft # initial)
    /\ UNCHANGED <<delivered, hasIO, timeLeft, timer, tickTask, isVisible, observed,
                   pending, isOpen, activations, initial, ticks>>

\* The effect cleanups of the removed tree, lines 68-70 and 103.  A task
\* already queued for the interval stays queued, for a handle that is no
\* longer active.
Cleanup ==
    /\ phase = "removed"
    /\ phase' = "unmounted"
    /\ observed' = Unobserve(observed)
    /\ timer' = ClearInterval(timer)
    /\ tickTask' = IF tickTask = "live" /\ ClearInterval(timer) = "none"
                   THEN "stale" ELSE tickTask
    /\ UNCHANGED <<delivered, hasIO, timeLeft, prevTicked, isVisible, pending, isOpen,
                   activations, initial, ticks>>

\* The interval elapses (setInterval(..., 1000), lines 95-102): the browser
\* queues a task for the handle.
TimerFire ==
    /\ timer = "active"
    /\ tickTask = "none"
    /\ tickTask' = "live"
    /\ UNCHANGED <<delivered, hasIO, phase, timeLeft, timer, prevTicked, isVisible,
                   observed, pending, isOpen, activations, initial, ticks>>

\* The queued task runs.  The browser runs the callback only if the handle
\* is still active; the callback calls setTimeLeft with the updater (lines
\* 96-101), and React applies an update only to a mounted instance.
RunTickTask ==
    /\ tickTask # "none"
    /\ tickTask' = "none"
    /\ timeLeft' = IF tickTask = "live" /\ phase = "mounted"
                   THEN Tick(timeLeft) ELSE timeLeft
    /\ UNCHANGED <<delivered, hasIO, phase, timer, prevTicked, isVisible, observed,
                   pending, isOpen, activations, initial, ticks>>

\* The browser finds the intersection of an observed region changed and
\* queues entries on its observer.
Intersect(i) ==
    /\ phase \in {"mounted", "removed"}
    /\ observed[i]
    /\ ~pending[i]
    /\ pending' = [pending EXCEPT ![i] = TRUE]
    /\ UNCHANGED <<delivered, hasIO, phase, timeLeft, timer, tickTask, prevTicked,
                   isVisible, observed, isOpen, activations, initial, ticks>>

\* A plausible slip: one flag shared by every section (a module-level value).
DeliverShared(i, entries) ==
    /\ pending[i]
    /\ pending' = [pending EXCEPT ![i] = FALSE]
    /\ isVisible' = IF phase = "mounted"
                    THEN [j \in Sections |->
                             ObserverCallback(isVisible[i], entries)]
                    ELSE isVisible
    /\ UNCHANGED <<hasIO, phase, timeLeft, timer, tickTask, prevTicked,
                   observed, isOpen, activations, initial, ticks>>

\* The observer of section i delivers its queued entries to the callback of
\* lines 57-63 (unobserve does not empty the queue); React applies the
\* update only to a mounted instance.
Deliver(i, entries) ==
    /\ pending[i]
    /\ pending' = [pending EXCEPT ![i] = FALSE]
    /\ isVisible' = IF phase = "mounted"
                    THEN [isVisible EXCEPT
                             ![i] = ObserverCallback(isVisible[i], entries)]
                    ELSE isVisible
    /\ UNCHANGED <<hasIO, phase, timeLeft, timer, tickTask, prevTicked,
                   observed, isOpen, activations, initial, ticks>>

\* The user activates the button of FAQ item i, line 173.  React renders a
\* click's update before the next event is handled, so the handler always
\* reads the current isOpen.
Click(i) ==
    /\ phase \in {"rendered", "mounted"}
    /\ isOpen' = SetIsOpen(i)
    /\ activations' = [activations EXCEPT ![i] = (activations[i] + 1) % 4]
    /\ UNCHANGED <<delivered, hasIO, phase, timeLeft, timer, tickTask, prevTicked,
                   isVisible, observed, pending, initial, ticks>>

\* Interval callbacks the instance mounted now has consumed.
Elapsed == Total(initial) - Total(timeLeft)

\* The interval of the page's countdown, followed for MaxTicks callbacks of
\* each mounted instance.
PageTimerFire == Elapsed < MaxTicks /\ TimerFire

\* A delivery on the page.
PageDeliver(i, entries) == Deliver(i, entries) /\ UNCHANGED delivered

\* The whole page.
Next ==
    \/ Mount
    \/ FlushEffects
    \/ Remove
    \/ Cleanup
    \/ PageTimerFire
    \/ RunTickTask
    \/ \E i \in Sections : Intersect(i)
    \/ \E i \in Sections : \E entries \in Batches : PageDeliver(i, entries)
    \/ \E i \in Items : Click(i)

Spec == Init /\ [][Next]_vars

\* The countdown alone, followed to its end: no scrolling, no clicks.
NextClock ==
    \/ Mount
    \/ FlushEffects
    \/ Remove
    \/ Cleanup
    \/ TimerFire
    \/ RunTickTask

SpecClock == Init /\ [][NextClock]_vars

\* A delivery, its section and its entries recorded.
DeliverBatch(i, entries) ==
    Deliver(i, entries) /\ delivered' = <<i, entries>>

\* The reveal sections alone, every delivered batch recorded: no interval,
\* no clicks.
NextReveal ==
    \/ Mount
    \/ FlushEffects
    \/ Remove
    \/ Cleanup
    \/ \E i \in Sections : Intersect(i)
    \/ \E i \in Sections : \E entries \in Batches : DeliverBatch(i, entries)

SpecReveal == Init /\ [][NextReveal]_vars

----------------------------------------------------------------------------
(* The countdown as a function of its initial value and the callbacks run. *)

InitialValues ==
    {[hours |-> h, minutes |-> m, seconds |-> s] :
        h \in 0..MaxH, m \in 0..MaxM, s \in 0..MaxS}

\* A CountdownTimer mounted with useState(initial), its interval running.
InitTick ==
    /\ hasIO = TRUE
    /\ phase = "mounted"
    /\ initial \in InitialValues
    /\ timeLeft = initial
    /\ timer = "active"
    /\ tickTask = "none"
    /\ prevTicked = FALSE
    /\ isVisible = [i \in Sections |-> FALSE]
    /\ observed = [i \in Sections |-> TRUE]
    /\ pending = [i \in Sections |-> FALSE]
    /\ isOpen = [i \in Items |-> FALSE]
    /\ activations = [i \in Items |-> 0]
    /\ ticks = 0
    /\ delivered = <<>>

\* One interval callback, lines 95-102, counted.
IntervalCallback ==
    /\ ticks < Total(initial) + ExtraTicks
    /\ timeLeft' = Tick(timeLeft)
    /\ ticks' = ticks + 1
    /\ UNCHANGED <<delivered, hasIO, phase, timer, tickTask, prevTicked, isVisible,
                   observed, pending, isOpen, activations, initial>>

NextTick == IntervalCallback

SpecTick == InitTick /\ [][NextTick]_vars

----------------------------------------------------------------------------
(* Properties. *)

\* The tree is gone and its cleanups have run (or it was taken down).
Disposed == {"unmounted", "crashed"}

\* A step that renders a fresh tree.
FreshMount == phase = "unmounted" /\ phase' = "rendered"

\* C1 (SpecTick): from every initial value (H, M, S) the countdown is not
\* (0,0,0) before H*3600 + M*60 + S interval callbacks have run, is (0,0,0)
\* after exactly that many, and stays (0,0,0) after every later callback.
C1_ZeroAfterTotalTicks ==
    /\ (ticks < Total(initial) => timeLeft # Zero)
    /\ (ticks >= Total(initial) => timeLeft = Zero)

\* From (0,0,3): zero after the third callback, unchanged by the fourth.
C1_Witness ==
    /\ initial = [hours |-> 0, minutes |-> 0, seconds |-> 3]
    /\ ticks = 4
    /\ timeLeft = Zero

\* C2 (SpecClock): within one mounted instance the remaining seconds never
\* grow, and an interval callback of a mounted instance whose value is not
\* (0,0,0) lowers them by exactly one.
C2_NonIncreasing ==
    [][/\ (~FreshMount => Total(timeLeft') <= Total(timeLeft))
       /\ (/\ tickTask = "live"
           /\ tickTask' = "none"
           /\ phase = "mounted"
           /\ timeLeft # Zero
           => Total(timeLeft') = Total(timeLeft) - 1)]_vars

\* A callback has just borrowed from the hours.
C2_Witness ==
    /\ phase = "mounted"
    /\ timeLeft = [hours |-> 0, minutes |-> 59, seconds |-> 59]

\* Some entry of the batch reports intersection.
AnyIntersecting(entries) == \E k \in DOMAIN entries : entries[k]

\* C3 (Spec): isVisible is false on a fresh mount and turns true only when
\* the observer delivers entries; a delivery with an intersecting entry to a
\* mounted section makes it true, and once true it stays true through every
\* later step of that instance, deliveries without intersection included.
C3_VisibleOnceAlways ==
    [][\A i \in Sections :
        /\ (FreshMount => ~isVisible'[i])
        /\ (~isVisible[i] /\ isVisible'[i] => pending[i] /\ ~pending'[i])
        /\ (\A entries \in Batches :
               Deliver(i, entries) /\ phase = "mounted"
                 /\ AnyIntersecting(entries) => isVisible'[i])
        /\ (isVisible[i] /\ ~FreshMount => isVisible'[i])]_vars

\* Section 1 is visible and its observer holds further entries to deliver.
C3_Witness ==
    /\ phase = "mounted"
    /\ isVisible[1]
    /\ pending[1]
    /\ ~isVisible[2]

\* C4 (Spec): a click on FAQ item i leaves isOpen of every other item as it
\* was.
C4_ClickChangesOnlyItsItem ==
    [][\A i \in Items :
        activations'[i] # activations[i] /\ ~FreshMount
          => \A j \in Items \ {i} : isOpen'[j] = isOpen[j]]_vars

\* Item 1 was opened and closed again and item 2 opened in between: item 2
\* is open, untouched by the clicks on item 1.
C4_Witness ==
    /\ phase = "mounted"
    /\ activations[1] = 2
    /\ activations[2] = 1
    /\ ~isOpen[1]
    /\ isOpen[2]

\* C5 (Spec): starting from false, every activation of an FAQ item flips its
\* isOpen, so isOpen is true exactly after an odd number of activations and
\* two activations in a row restore the value.
C5_ToggleInvolution ==
    \A i \in Items : isOpen[i] <=> (activations[i] % 2 = 1)

\* Item 1 was activated twice and is closed again.
C5_Witness ==
    /\ phase = "mounted"
    /\ activations[1] = 2
    /\ ~isOpen[1]

\* C6 (SpecClock): once the cleanup of a removed CountdownTimer has run, its
\* interval handle is not active, no task of it can run the callback, and
\* the countdown value does not change until a fresh mount.
C6_TimerReleased ==
    /\ [](phase \in Disposed => timer = "none" /\ tickTask # "live")
    /\ [][(phase \in Disposed /\ phase' \in Disposed)
             => (timeLeft' = timeLeft)]_vars

\* The instance was removed while a tick was queued: the task is still there.
C6_Witness ==
    /\ phase = "unmounted"
    /\ tickTask = "stale"
    /\ timeLeft # initial

\* C7 (Spec): once the cleanup of a removed RevealSection has run, its
\* region is not observed, and from the removal on no delivery of entries
\* changes isVisible.
C7_Deregistered ==
    /\ [](phase \in Disposed => \A i \in Sections : ~observed[i])
    /\ [][(phase \in Disposed \cup {"removed"}
              /\ phase' \in Disposed \cup {"removed"})
             => (isVisible' = isVisible)]_vars

\* Entries queued before the cleanup are still to be delivered after it.
C7_Witness ==
    /\ phase = "unmounted"
    /\ pending[1]
    /\ ~isVisible[1]

\* C8 (Spec): where the host has no IntersectionObserver, the effects run
\* without failing and every region is shown.
C8_FallbackVisible ==
    ~hasIO /\ phase \notin {"unmounted", "rendered"}
      => phase = "mounted" /\ \A i \in Sections : isVisible[i]

\* The two decimal digits of n, tens first.
TwoDigits(n) == <<DigitChar(n \div 10), DigitChar(n % 10)>>

\* C9 (SpecClock): every field the countdown displays is exactly two
\* characters, the decimal digits of the field left-padded with "0".
C9_TwoDigitFields ==
    /\ Len(Display[1]) = 2 /\ Display[1] = TwoDigits(timeLeft.hours)
    /\ Len(Display[2]) = 2 /\ Display[2] = TwoDigits(timeLeft.minutes)
    /\ Len(Display[3]) = 2 /\ Display[3] = TwoDigits(timeLeft.seconds)

\* format(42) = "42" and format(5) = "05" on the page.
C9_Witness ==
    /\ timeLeft.minutes = 42
    /\ timeLeft.seconds = 5
    /\ Display[2] = <<"4", "2">>
    /\ Display[3] = <<"0", "5">>

\* C10 (SpecClock): a freshly mounted CountdownTimer holds 1:24:59, whatever
\* the instance mounted before it had counted down to.
C10_RestartsFromConstant ==
    phase = "rendered" => timeLeft = [hours |-> 1, minutes |-> 24, seconds |-> 59]

\* A fresh mount after an instance that had consumed ticks.
C10_Witness ==
    /\ phase = "rendered"
    /\ prevTicked
    /\ timeLeft = InitialTimeLeft

\* The step the countdown is specified to take, on (h, m, s) triples.
RefStep(h, m, s) ==
    CASE s > 0 -> <<h, m, s - 1>>
      [] s = 0 /\ m > 0 -> <<h, m - 1, 59>>
      [] s = 0 /\ m = 0 /\ h > 0 -> <<h - 1, 59, 59>>
      [] OTHER -> <<0, 0, 0>>

Triple(t) == <<t.hours, t.minutes, t.seconds>>

\* C11 (SpecTick): every interval callback takes (h, m, s) to (h, m, s-1)
\* if s > 0, else to (h, m-1, 59) if m > 0, else to (h-1, 59, 59) if h > 0,
\* else leaves (0,0,0); from (0,1,0) one callback gives (0,0,59) and 61
\* callbacks give (0,0,0).
C11_TickIsReferenceStep ==
    /\ [][Triple(timeLeft')
            = RefStep(timeLeft.hours, timeLeft.minutes, timeLeft.seconds)]_vars
    /\ [](initial = [hours |-> 0, minutes |-> 1, seconds |-> 0]
            => /\ (ticks = 1 => Triple(timeLeft) = <<0, 0, 59>>)
               /\ (ticks = 61 => Triple(timeLeft) = <<0, 0, 0>>))

\* From (0,1,0), the 61st callback has run.
C11_Witness ==
    /\ initial = [hours |-> 0, minutes |-> 1, seconds |-> 0]
    /\ ticks = 61
    /\ timeLeft = Zero

\* C12 (SpecClock): in every state reached from 1:24:59 the hours are >= 0
\* and the minutes and the seconds are within 0..59, and a countdown at
\* (0,0,0) stays there for as long as the instance lives.
C12_FieldsInRange ==
    /\ [](/\ timeLeft.hours >= 0
          /\ timeLeft.minutes \in 0..59
          /\ timeLeft.seconds \in 0..59)
    /\ [][(timeLeft = Zero /\ ~FreshMount) => (timeLeft' = Zero)]_vars

\* The countdown is at (0,0,0) and a further interval task is queued.
C12_Witness ==
    /\ phase = "mounted"
    /\ timeLeft = Zero
    /\ tickTask = "live"

\* C13 (Spec): an interval task changes no isVisible and no isOpen; a
\* delivery of entries for one section changes no other section's isVisible,
\* no countdown value and no isOpen; a click changes no isVisible and no
\* countdown value.
C13_UnitsIsolated ==
    [][/\ (tickTask # "none" /\ tickTask' = "none"
             => isVisible' = isVisible /\ isOpen' = isOpen)
       /\ (\A i \in Sections :
             pending[i] /\ ~pending'[i] /\ phase' = phase
               => /\ \A j \in Sections \ {i} : isVisible'[j] = isVisible[j]
                  /\ timeLeft' = timeLeft
                  /\ isOpen' = isOpen)
       /\ (activations' # activations /\ ~FreshMount
             => isVisible' = isVisible /\ timeLeft' = timeLeft)]_vars

\* A callback of each kind has acted on its own instance only.
C13_Witness ==
    /\ phase = "mounted"
    /\ Elapsed = 1
    /\ isVisible[1] /\ ~isVisible[2]
    /\ isOpen[1] /\ ~isOpen[2]
    /\ activations[2] = 0

\* C14 (SpecReveal): a callback that delivers several entries to a mounted
\* section leaves isVisible true if it was true or if at least one entry,
\* at any position of the batch, reports intersection; a batch whose
\* entries all report no intersection leaves isVisible as it was.
C14_BatchAnyIntersecting ==
    [][\A i \in Sections :
        (pending[i] /\ ~pending'[i] /\ phase = "mounted" /\ phase' = phase)
          => /\ delivered'[1] = i
             /\ isVisible'[i]
                  = (isVisible[i] \/ AnyIntersecting(delivered'[2]))]_vars

\* Section 1 is visible after a batch whose last entry reports no
\* intersection.
C14_Witness ==
    /\ phase = "mounted"
    /\ delivered = <<1, <<TRUE, FALSE>>>>
    /\ isVisible[1]
    /\ ~isVisible[2]

====
